---- MODULE Spec2Model ----
(***************************************************************************)
(* Model of Network_Simulation.py: a co-evolving directed network.  A      *)
(* quantity is exchanged over weighted links while the link weights drift  *)
(* randomly; quantities and weights are constrained after every step.      *)
(*                                                                         *)
(* Python floats are modelled as exact rationals <<numerator, denominator>>*)
(* in lowest terms with a positive denominator.  Python's 0-based indices  *)
(* 0..NODES-1 are the 1-based indices 1..NODES here.  The unique first     *)
(* names drawn by names.get_first_name() are the identities 1..NODES.      *)
(***************************************************************************)
EXTENDS Integers, Sequences, FiniteSets, TLC

VARIABLES
    pc,              \* position of the script
    i,               \* loop variable of "for i in range(ITERATIONS)"
    boundaries,      \* the module globals NODE_Q_MIN/MAX, LINK_W_MIN/MAX as read by limit_params
    name_list,       \* node names, in the order initialize_network drew them
    net_quantities,  \* node attribute 'Quantities' of net: name -> quantity
    net_edges,       \* net.edges(data=True): sequence of [u, v, weight] in iteration order
    links_init,      \* the adjacency matrix initialize_network built the graph from
    fig_open,        \* plt.fignum_exists(0)
    quantities,      \* local list "quantities" of the main loop
    links,           \* local matrix "links" of the main loop
    rand,            \* the matrix of drift factors drawn by network_dynamics
    links_flat,      \* local list "links_flat" of the main loop
    nodesizes,       \* node sizes handed to nx.draw
    linkwidths       \* edge widths handed to nx.draw

vars == <<pc, i, boundaries, name_list, net_quantities, net_edges, links_init, fig_open,
          quantities, links, rand, links_flat, nodesizes, linkwidths>>

-----------------------------------------------------------------------------
(* Bounds of the model *)

\* number of nodes (the script sets 19)
NODES == 2
\* iteration budget (the script sets 1000)
ITERATIONS == 2
\* most links of a network built by initialize_network
MaxLinks == 2
\* most links of a network the run loop is entered with
MaxInputLinks == 1

-----------------------------------------------------------------------------
(* Exact rational arithmetic standing for the float arithmetic *)

Abs(x) == IF x < 0 THEN -x ELSE x

Min(a, b) == IF a < b THEN a ELSE b

\* Euclid's algorithm on a pair of naturals
gcd[p \in Nat \X Nat] == IF p[2] = 0 THEN p[1] ELSE gcd[<<p[2], p[1] % p[2]>>]

Gcd(a, b) == gcd[<<a, b>>]

\* the rational n/d (d # 0) in lowest terms
R(n, d) ==
    LET g == Gcd(Abs(n), Abs(d))
        s == IF d < 0 THEN -1 ELSE 1
    IN  <<(s * n) \div g, (s * d) \div g>>

Zero == <<0, 1>>

Add(x, y) ==
    LET g == Gcd(x[2], y[2])
    IN  R(x[1] * (y[2] \div g) + y[1] * (x[2] \div g), (x[2] \div g) * y[2])

Neg(x) == <<-x[1], x[2]>>

Sub(x, y) == Add(x, Neg(y))

Mul(x, y) ==
    LET a == R(x[1], y[2])
        b == R(y[1], x[2])
    IN  <<a[1] * b[1], a[2] * b[2]>>

\* x < y
Lt(x, y) == Sub(x, y)[1] < 0

\* x > y
Gt(x, y) == Lt(y, x)

-----------------------------------------------------------------------------
(* Module constants *)

LINK_TH == R(1, 4)
LINK_W_BASE == R(1, 4)
LINK_W_DEV == R(1, 20)
NODE_Q_INIT == R(2, 1)
NODE_SIZE_MIN == R(2, 5)
NODE_SIZE_SCALING == R(3000, 1)
LINK_SIZE_SCALING == R(10, 1)
LINK_MOD_BASE == R(1, 1)
LINK_MOD_DEV == R(3, 20)
NODE_Q_MIN == R(1, 100)
NODE_Q_MAX == R(3, 1)
LINK_W_MIN == R(1, 100)
LINK_W_MAX == R(1, 1)

Idx == 1..NODES

\* x lies in the closed interval [lo, hi]
Within(x, lo, hi) == ~Lt(x, lo) /\ ~Gt(x, hi)

\* samples of np.random.uniform(0, NODE_Q_INIT): the half-open interval [0, 2)
QuantitySamples ==
    {x \in {R(15, 8)} : ~Lt(x, Zero) /\ Lt(x, NODE_Q_INIT)}

\* samples of np.random.uniform(LINK_W_BASE-LINK_W_DEV, LINK_W_BASE+LINK_W_DEV)
WeightSamples ==
    {x \in {R(1, 4)} :
        Within(x, Sub(LINK_W_BASE, LINK_W_DEV), Add(LINK_W_BASE, LINK_W_DEV))}

\* samples of np.random.uniform() in [0, 1), compared with LINK_TH
UniformSamples == {R(1, 8), R(1, 2)}

\* samples of np.random.uniform(LINK_MOD_BASE-LINK_MOD_DEV, LINK_MOD_BASE+LINK_MOD_DEV)
ModSamples ==
    {x \in {R(7, 8), R(9, 8)} :
        Within(x, Sub(LINK_MOD_BASE, LINK_MOD_DEV), Add(LINK_MOD_BASE, LINK_MOD_DEV))}

Matrices(S) == [Idx -> [Idx -> S]]

\* the draws np.random.uniform(..., size=links.shape) of drift factors for the matrix W,
\* one per entry; the factor of an entry that is 0 multiplies 0 and leaves it 0
\* whatever its value, and LINK_MOD_BASE stands for it
ModDraws(W) ==
    LET cells == {c \in Idx \X Idx : W[c[1]][c[2]] # Zero}
    IN  {[a \in Idx |-> [b \in Idx |->
            IF <<a, b>> \in cells THEN f[<<a, b>>] ELSE LINK_MOD_BASE]] :
         f \in [cells -> ModSamples]}

-----------------------------------------------------------------------------
(* numpy / networkx helpers *)

RECURSIVE SumTo(_, _)
\* f[1] + ... + f[n]
SumTo(f, n) == IF n = 0 THEN Zero ELSE Add(SumTo(f, n - 1), f[n])

\* np.sum over a list
Sum(q) == SumTo(q, Len(q))

\* np.dot(vector, matrix)
DotVM(q, W) == [j \in Idx |-> SumTo([k \in Idx |-> Mul(q[k], W[k][j])], NODES)]

\* np.dot(matrix, matrix)
DotMM(A, B) ==
    [a \in Idx |-> [b \in Idx |-> SumTo([k \in Idx |-> Mul(A[a][k], B[k][b])], NODES)]]

\* ml.repmat(q, m, 1): m rows, each the vector q
repmat(q, m) == [k \in 1..m |-> q]

\* np.diagonal
diagonal(M) == [k \in Idx |-> M[k][k]]

\* the matrix with rows and columns exchanged
transpose(M) == [a \in Idx |-> [b \in Idx |-> M[b][a]]]

\* an additive perturbation in place of np.multiply
add_elementwise(A, B) == [a \in Idx |-> [b \in Idx |-> Add(A[a][b], B[a][b])]]

\* np.multiply: elementwise product
multiply(A, B) == [a \in Idx |-> [b \in Idx |-> Mul(A[a][b], B[a][b])]]

RECURSIVE nonzero(_, _)
\* np.nonzero: the cells <<row, column>> holding a nonzero entry among the first k
\* cells of M, in row-major order
nonzero(M, k) ==
    IF k = 0 THEN <<>>
    ELSE LET row == ((k - 1) \div NODES) + 1
             column == ((k - 1) % NODES) + 1
             rest == nonzero(M, k - 1)
         IN  IF M[row][column] # Zero THEN Append(rest, <<row, column>>) ELSE rest

\* nx.from_numpy_matrix + nx.relabel_nodes: one edge per nonzero entry, added row by
\* row, so net.edges() iterates them in row-major order of (source, target)
from_numpy_matrix(M, names) ==
    LET cells == nonzero(M, NODES * NODES)
    IN  [k \in 1..Len(cells) |->
            [u |-> names[cells[k][1]], v |-> names[cells[k][2]],
             weight |-> M[cells[k][1]][cells[k][2]]]]

\* nx.to_numpy_matrix(net, nodelist=names): the weight of edge (names[a], names[b]),
\* 0 where there is no such edge
to_numpy_matrix(edges, names) ==
    [a \in Idx |-> [b \in Idx |->
        IF \E k \in 1..Len(edges) : edges[k].u = names[a] /\ edges[k].v = names[b]
        THEN LET k == CHOOSE k \in 1..Len(edges) :
                          edges[k].u = names[a] /\ edges[k].v = names[b]
             IN  edges[k].weight
        ELSE Zero]]

-----------------------------------------------------------------------------
(* The functions of the script *)

\* np.dot(links, quantities): the operands in the other order
Transfers_right(q, W) == [j \in Idx |-> SumTo([k \in Idx |-> Mul(W[j][k], q[k])], NODES)]

\* transfers = np.dot(quantities, links)
Transfers(q, W) == DotVM(q, W)

\* the losses with the quantities replicated along the columns instead of the rows
Losses_by_column(q, W) == diagonal(DotMM(W, transpose(repmat(q, Len(q)))))

\* losses = np.diagonal(np.dot(links, repmat(quantities, len(quantities), 1)))
Losses(q, W) == diagonal(DotMM(W, repmat(q, Len(q))))

\* network_dynamics, with the drawn drift factors F: <<quantities, links>>
network_dynamics(q, W, F) ==
    LET transfers == Transfers(q, W)
        losses == Losses(q, W)
    IN  <<[n \in 1..Len(name_list) |-> Add(Sub(q[n], losses[n]), transfers[n])],
          multiply(W, F)>>

RECURSIVE flatten_from(_, _, _)
\* the two nested loops of flatten, from cell (lin, col) on
flatten_from(M, lin, col) ==
    IF lin > Len(M) THEN <<>>
    ELSE IF col > Len(M) THEN flatten_from(M, lin + 1, 1)
    ELSE (IF M[lin][col] # Zero THEN <<M[lin][col]>> ELSE <<>>)
            \o flatten_from(M, lin, col + 1)

\* flatten that walks the matrix column by column
flatten_by_column(M) == flatten_from(transpose(M), 1, 1)

\* flatten: the nonzero entries, row by row
flatten(M) == flatten_from(M, 1, 1)

\* the chain without its last branch: nothing is pinned to the upper bound
limit_lower_only(p, b) ==
    IF Gt(p, b[1]) /\ Lt(p, b[2]) THEN p
    ELSE IF Lt(p, b[1]) THEN b[1]
    ELSE p

\* the chain adding the bound to the parameter instead of assigning it
limit_shift(p, b) ==
    IF Gt(p, b[1]) /\ Lt(p, b[2]) THEN p
    ELSE IF Lt(p, b[1]) THEN Add(p, b[1])
    ELSE IF Gt(p, b[2]) THEN Sub(p, b[2])
    ELSE p

\* one pass of the if/elif chain of limit_params over a parameter p with bounds b
limit(p, b) ==
    IF Gt(p, b[1]) /\ Lt(p, b[2]) THEN p
    ELSE IF Lt(p, b[1]) THEN b[1]
    ELSE IF Gt(p, b[2]) THEN b[2]
    ELSE p

\* limit_params zipping the two lists with the boundaries in the other order
limit_params_swapped(q, lf) ==
    <<[p \in 1..Len(q) |-> limit(q[p], boundaries.link_w)],
      [p \in 1..Len(lf) |-> limit(lf[p], boundaries.node_q)]>>

\* limit_params: <<quantities, links_flat>>
limit_params(q, lf) ==
    <<[p \in 1..Len(q) |-> limit(q[p], boundaries.node_q)],
      [p \in 1..Len(lf) |-> limit(lf[p], boundaries.link_w)]>>

\* the node sizes update_visualization draws
NodeSizes(q) ==
    [n \in 1..Len(q) |->
        Mul(IF Lt(q[n], NODE_SIZE_MIN) THEN NODE_SIZE_MIN ELSE q[n], NODE_SIZE_SCALING)]

\* the edge widths update_visualization draws
LinkWidths(edges) == [k \in 1..Len(edges) |-> Mul(edges[k].weight, LINK_SIZE_SCALING)]

-----------------------------------------------------------------------------
(* State machine *)

\* the globals as the script sets them
ModuleBoundaries ==
    [node_q |-> <<NODE_Q_MIN, NODE_Q_MAX>>, link_w |-> <<LINK_W_MIN, LINK_W_MAX>>]

\* the script before initialize_network, with the boundaries B
Start(B) ==
    /\ pc = "initialize_network"
    /\ i = 0
    /\ boundaries = B
    /\ name_list = <<>>
    /\ net_quantities = <<>>
    /\ net_edges = <<>>
    /\ links_init = <<>>
    /\ fig_open = TRUE
    /\ quantities = <<>>
    /\ links = <<>>
    /\ rand = <<>>
    /\ links_flat = <<>>
    /\ nodesizes = <<>>
    /\ linkwidths = <<>>

Init == Start(ModuleBoundaries)

\* initialize_network
initialize_network ==
    /\ pc = "initialize_network"
    /\ \E q \in [Idx -> QuantitySamples], w \in Matrices(WeightSamples),
          u \in Matrices(UniformSamples) :
          LET names == [k \in Idx |-> k]
              lnk == [a \in Idx |-> [b \in Idx |->
                        IF a = b \/ Gt(u[a][b], LINK_TH) THEN Zero ELSE w[a][b]]]
          IN  /\ Len(nonzero(lnk, NODES * NODES)) <= MaxLinks
              /\ name_list' = names
              /\ net_quantities' = [k \in Idx |-> q[k]]
              /\ net_edges' = from_numpy_matrix(lnk, names)
              /\ links_init' = lnk
    /\ pc' = "for"
    /\ UNCHANGED <<i, boundaries, fig_open, quantities, links, rand, links_flat,
                   nodesizes, linkwidths>>

\* for i in range(ITERATIONS): the next iteration starts
for_next ==
    /\ pc = "for"
    /\ i < ITERATIONS
    /\ pc' = "get_quantities"
    /\ UNCHANGED <<i, boundaries, name_list, net_quantities, net_edges, links_init,
                   fig_open, quantities, links, rand, links_flat, nodesizes, linkwidths>>

\* for i in range(ITERATIONS): the range is exhausted
for_exhausted ==
    /\ pc = "for"
    /\ i >= ITERATIONS
    /\ pc' = "done"
    /\ UNCHANGED <<i, boundaries, name_list, net_quantities, net_edges, links_init,
                   fig_open, quantities, links, rand, links_flat, nodesizes, linkwidths>>

\* quantities = [quantities_dict[name] for name in name_list]
get_quantities ==
    /\ pc = "get_quantities"
    /\ quantities' = [n \in 1..Len(name_list) |-> net_quantities[name_list[n]]]
    /\ pc' = "update_visualization"
    /\ UNCHANGED <<i, boundaries, name_list, net_quantities, net_edges, links_init,
                   fig_open, links, rand, links_flat, nodesizes, linkwidths>>

\* update_visualization scaling the list handed to it instead of a deepcopy of it
update_visualization_alias ==
    /\ pc = "update_visualization"
    /\ nodesizes' = NodeSizes(quantities)
    /\ quantities' = NodeSizes(quantities)
    /\ linkwidths' = LinkWidths(net_edges)
    /\ pc' = "get_links"
    /\ UNCHANGED <<i, boundaries, name_list, net_quantities, net_edges, links_init,
                   fig_open, links, rand, links_flat>>

\* update_visualization(net, layout, name_list, quantities)
update_visualization ==
    /\ pc = "update_visualization"
    /\ nodesizes' = NodeSizes(quantities)
    /\ linkwidths' = LinkWidths(net_edges)
    /\ pc' = "get_links"
    /\ UNCHANGED <<i, boundaries, name_list, net_quantities, net_edges, links_init,
                   fig_open, quantities, links, rand, links_flat>>

\* links = np.array(nx.convert_matrix.to_numpy_matrix(net, nodelist=name_list))
get_links ==
    /\ pc = "get_links"
    /\ links' = to_numpy_matrix(net_edges, name_list)
    /\ pc' = "network_dynamics"
    /\ UNCHANGED <<i, boundaries, name_list, net_quantities, net_edges, links_init,
                   fig_open, quantities, rand, links_flat, nodesizes, linkwidths>>

\* quantities, links = network_dynamics(quantities, links)
simulate_dynamics ==
    /\ pc = "network_dynamics"
    /\ \E F \in ModDraws(links) :
          LET res == network_dynamics(quantities, links, F)
          IN  /\ rand' = F
              /\ quantities' = res[1]
              /\ links' = res[2]
    /\ pc' = "flatten"
    /\ UNCHANGED <<i, boundaries, name_list, net_quantities, net_edges, links_init,
                   fig_open, links_flat, nodesizes, linkwidths>>

\* links_flat = flatten(links)
convert_to_list ==
    /\ pc = "flatten"
    /\ links_flat' = flatten(links)
    /\ pc' = "limit_params"
    /\ UNCHANGED <<i, boundaries, name_list, net_quantities, net_edges, links_init,
                   fig_open, quantities, links, rand, nodesizes, linkwidths>>

\* quantities, links_flat = limit_params(quantities, links_flat)
constrain ==
    /\ pc = "limit_params"
    /\ LET res == limit_params(quantities, links_flat)
       IN  /\ quantities' = res[1]
           /\ links_flat' = res[2]
    /\ pc' = "set_node_attributes"
    /\ UNCHANGED <<i, boundaries, name_list, net_quantities, net_edges, links_init,
                   fig_open, links, rand, nodesizes, linkwidths>>

\* quantities_dict = dict(zip(name_list, quantities)); nx.set_node_attributes(...)
set_node_attributes ==
    /\ pc = "set_node_attributes"
    /\ LET zipped == 1..Min(Len(name_list), Len(quantities))
       IN  net_quantities' =
              [name \in DOMAIN net_quantities |->
                  IF \E n \in zipped : name_list[n] = name
                  THEN quantities[CHOOSE n \in zipped : name_list[n] = name]
                  ELSE net_quantities[name]]
    /\ pc' = "reassign_weights"
    /\ UNCHANGED <<i, boundaries, name_list, net_edges, links_init, fig_open,
                   quantities, links, rand, links_flat, nodesizes, linkwidths>>

\* for edge_triple, link in zip(net.edges(data=True), links_flat): ...['weight'] = link
reassign_weights ==
    /\ pc = "reassign_weights"
    /\ net_edges' =
          [k \in 1..Len(net_edges) |->
              IF k <= Len(links_flat)
              THEN [net_edges[k] EXCEPT !.weight = links_flat[k]]
              ELSE net_edges[k]]
    /\ pc' = "fignum_exists"
    /\ UNCHANGED <<i, boundaries, name_list, net_quantities, links_init, fig_open,
                   quantities, links, rand, links_flat, nodesizes, linkwidths>>

\* the check with its condition inverted: if plt.fignum_exists(0): break
check_figure_inverted ==
    /\ pc = "fignum_exists"
    /\ IF ~fig_open
       THEN /\ i' = i + 1
            /\ pc' = "for"
       ELSE /\ i' = i
            /\ pc' = "done"
    /\ UNCHANGED <<boundaries, name_list, net_quantities, net_edges, links_init,
                   fig_open, quantities, links, rand, links_flat, nodesizes, linkwidths>>

\* if not plt.fignum_exists(0): break
check_figure ==
    /\ pc = "fignum_exists"
    /\ IF fig_open
       THEN /\ i' = i + 1
            /\ pc' = "for"
       ELSE /\ i' = i
            /\ pc' = "done"
    /\ UNCHANGED <<boundaries, name_list, net_quantities, net_edges, links_init,
                   fig_open, quantities, links, rand, links_flat, nodesizes, linkwidths>>

\* the user closes the window of figure 0
close_figure ==
    /\ pc # "done"
    /\ fig_open
    /\ fig_open' = FALSE
    /\ UNCHANGED <<pc, i, boundaries, name_list, net_quantities, net_edges, links_init,
                   quantities, links, rand, links_flat, nodesizes, linkwidths>>

\* one iteration of the run loop, step by step
Iteration ==
    \/ for_next
    \/ for_exhausted
    \/ get_quantities
    \/ update_visualization
    \/ get_links
    \/ simulate_dynamics
    \/ convert_to_list
    \/ constrain
    \/ set_node_attributes
    \/ reassign_weights
    \/ check_figure

Next ==
    \/ initialize_network
    \/ for_next
    \/ for_exhausted
    \/ get_quantities
    \/ update_visualization
    \/ get_links
    \/ simulate_dynamics
    \/ convert_to_list
    \/ constrain
    \/ set_node_attributes
    \/ reassign_weights
    \/ check_figure
    \/ close_figure

Spec == Init /\ [][Next]_vars

-----------------------------------------------------------------------------
(* The run loop entered with an arbitrary network: the inputs of                *)
(* network_dynamics, flatten and limit_params drawn from bounded sets           *)

\* quantities of an arbitrary network: below the bounds, inside, above; a quantity
\* of 1 fed over a link of 1/2 from a quantity of 4 lands on NODE_Q_MAX
QuantityInputs == {Zero, R(1, 1), R(4, 1)}

\* link weights of an arbitrary network: drifting below or onto LINK_W_MIN
\* (2/225 * 9/8 = 1/100), inside, drifting onto LINK_W_MAX (8/9 * 9/8 = 1), above
WeightInputs == {R(2, 225), R(1, 2), R(8, 9), R(2, 1)}

\* the script at the head of the last iteration of the run loop, its network holding
\* the quantities q and the links W
LoopHead(q, W) ==
    LET names == [k \in Idx |-> k]
    IN  /\ pc = "for"
        /\ i = ITERATIONS - 1
        /\ boundaries = ModuleBoundaries
        /\ name_list = names
        /\ net_quantities = [k \in Idx |-> q[k]]
        /\ net_edges = from_numpy_matrix(W, names)
        /\ links_init = W
        /\ fig_open = TRUE
        /\ quantities = <<>>
        /\ links = <<>>
        /\ rand = <<>>
        /\ links_flat = <<>>
        /\ nodesizes = <<>>
        /\ linkwidths = <<>>

InitFn ==
    \E q \in [Idx -> QuantityInputs],
       cells \in {c \in SUBSET {c \in Idx \X Idx : c[1] # c[2]} :
                     Cardinality(c) <= MaxInputLinks} :
       \E w \in [cells -> WeightInputs] :
          LoopHead(q, [a \in Idx |-> [b \in Idx |->
                          IF <<a, b>> \in cells THEN w[<<a, b>>] ELSE Zero]])

NextFn ==
    \/ for_next
    \/ for_exhausted
    \/ get_quantities
    \/ update_visualization
    \/ get_links
    \/ simulate_dynamics
    \/ convert_to_list
    \/ constrain
    \/ set_node_attributes
    \/ reassign_weights
    \/ check_figure
    \/ close_figure

SpecFn == InitFn /\ [][NextFn]_vars

-----------------------------------------------------------------------------
(* The script started with other values of the bound globals *)

BoundaryConfigs ==
    [node_q : {<<NODE_Q_MIN, NODE_Q_MAX>>, <<NODE_Q_MAX, NODE_Q_MIN>>},
     link_w : {<<LINK_W_MIN, LINK_W_MAX>>, <<LINK_W_MAX, LINK_W_MIN>>}]

InitConf == \E B \in BoundaryConfigs : Start(B)

SpecConf == InitConf /\ [][Next]_vars

-----------------------------------------------------------------------------
(* The script's statements run one after the other without suspension *)

FairSpec == Spec /\ WF_vars(initialize_network \/ Iteration)

-----------------------------------------------------------------------------
(* Vocabulary of the properties *)

\* the quantities stored in net, in the order of name_list
StoredQuantities == [n \in 1..Len(name_list) |-> net_quantities[name_list[n]]]

\* the link weights stored in net, as a matrix in the order of name_list
StoredLinks == to_numpy_matrix(net_edges, name_list)

\* the position of a name in name_list
IndexOf(name) == CHOOSE n \in 1..Len(name_list) : name_list[n] = name

RMax(x, y) == IF Lt(x, y) THEN y ELSE x

RMin(x, y) == IF Lt(y, x) THEN y ELSE x

\* elementwise min/max
Clamp(x, lo, hi) == RMin(RMax(x, lo), hi)

\* the sum of row a of W
RowSum(W, a) == SumTo(W[a], NODES)

\* the positions inside one iteration of the run loop
InIteration ==
    {"get_quantities", "update_visualization", "get_links", "network_dynamics",
     "flatten", "limit_params", "set_node_attributes", "reassign_weights",
     "fignum_exists"}

\* every stored quantity and every stored edge weight is within its bounds
InBounds ==
    /\ \A name \in DOMAIN net_quantities :
          Within(net_quantities[name], NODE_Q_MIN, NODE_Q_MAX)
    /\ \A k \in 1..Len(net_edges) : Within(net_edges[k].weight, LINK_W_MIN, LINK_W_MAX)

-----------------------------------------------------------------------------
(* Properties *)

\* C1: after every completed iteration (network_dynamics, flatten, limit_params,
\* write-back), whatever the network at the start of the iteration and whatever the
\* drift factors, every stored quantity lies in [NODE_Q_MIN, NODE_Q_MAX] and every
\* stored edge weight lies in [LINK_W_MIN, LINK_W_MAX].
C1_BoundsAfterIteration ==
    (pc = "fignum_exists" \/ pc = "done") => InBounds

\* an iteration is complete in which a weight drifted above LINK_W_MAX was written
\* back, and the stored quantities sit at both bounds
C1_Witness ==
    /\ pc = "fignum_exists"
    /\ Len(net_edges) = Len(flatten(links))
    /\ \E k \in 1..Len(net_edges) :
          Gt(flatten(links)[k], LINK_W_MAX) /\ net_edges[k].weight = LINK_W_MAX
    /\ \E name \in DOMAIN net_quantities : net_quantities[name] = NODE_Q_MAX
    /\ \E name \in DOMAIN net_quantities : net_quantities[name] = NODE_Q_MIN

\* C2: the topology is fixed at initialization: the diagonal of the weight matrix is 0
\* and the pairs with a nonzero weight are exactly those initialize_network gave a
\* nonzero weight, in the stored network and in the drifted matrix alike.
C2_TopologyFixed ==
    pc # "initialize_network" =>
        /\ \A a \in Idx : StoredLinks[a][a] = Zero
        /\ \A a, b \in Idx : (StoredLinks[a][b] # Zero) <=> (links_init[a][b] # Zero)
        /\ links # <<>> =>
              \A a, b \in Idx : (links[a][b] # Zero) <=> (links_init[a][b] # Zero)

\* all iterations have run on a network with a link and with a pair without link
C2_Witness ==
    /\ pc = "for"
    /\ i = ITERATIONS
    /\ \E a, b \in Idx : a # b /\ links_init[a][b] # Zero /\ StoredLinks[a][b] # Zero
    /\ \E a, b \in Idx : a # b /\ links_init[a][b] = Zero /\ links[a][b] = Zero

\* C3: the transfers and losses network_dynamics computes have the same total, and the
\* quantities it returns (before limit_params) have the same total as its input.
C3_Conservation ==
    pc = "flatten" =>
        /\ Sum(Transfers(StoredQuantities, StoredLinks))
              = Sum(Losses(StoredQuantities, StoredLinks))
        /\ Sum(quantities) = Sum(StoredQuantities)

\* network_dynamics has returned, and quantity was moved over a link
C3_Witness ==
    /\ pc = "flatten"
    /\ quantities # StoredQuantities
    /\ Sum(Transfers(StoredQuantities, StoredLinks)) # Zero

\* C4: network_dynamics returns q'[n] = q[n] - loss[n] + transfer[n] with
\* transfer[n] = sum over k of q[k]*W[k][n]; the loss taken from the diagonal of
\* W times the replicated q is q[n] times the sum of row n of W; q = [1, 0, ...],
\* W[1][2] = 1/2 the only link gives q' = [1/2, 1/2, ...]; a node without outgoing
\* weight loses nothing.
C4_UpdateRule ==
    pc = "flatten" =>
        LET q == StoredQuantities
            W == StoredLinks
            loss == [n \in Idx |-> Mul(q[n], RowSum(W, n))]
            transfer == [n \in Idx |-> SumTo([k \in Idx |-> Mul(q[k], W[k][n])], NODES)]
            unit == [n \in Idx |-> IF n = 1 THEN R(1, 1) ELSE Zero]
            single == [a \in Idx |-> [b \in Idx |->
                         IF a = 1 /\ b = 2 THEN R(1, 2) ELSE Zero]]
        IN  /\ Losses(q, W) = loss
            /\ Transfers(q, W) = transfer
            /\ \A n \in Idx : quantities[n] = Add(Sub(q[n], loss[n]), transfer[n])
            /\ (q = unit /\ W = single) =>
                  quantities = [n \in Idx |-> IF n <= 2 THEN R(1, 2) ELSE Zero]
            /\ \A n \in Idx :
                  (\A b \in Idx : W[n][b] = Zero) => Losses(q, W)[n] = Zero

\* network_dynamics has returned on q = [1, 0, ...] with W[1][2] = 1/2 the only link
C4_Witness ==
    /\ pc = "flatten"
    /\ StoredQuantities = [n \in Idx |-> IF n = 1 THEN R(1, 1) ELSE Zero]
    /\ StoredLinks = [a \in Idx |-> [b \in Idx |->
                        IF a = 1 /\ b = 2 THEN R(1, 2) ELSE Zero]]
    /\ quantities[2] = R(1, 2)

\* C5: limit_params is an elementwise min/max: every quantity x becomes
\* min(max(x, NODE_Q_MIN), NODE_Q_MAX) and every flattened weight x becomes
\* min(max(x, LINK_W_MIN), LINK_W_MAX); values within the bounds, the bounds
\* themselves included, are returned unchanged.
C5_LimitIsMinMax ==
    [][(pc = "limit_params" /\ pc' = "set_node_attributes") =>
          /\ quantities' =
                [p \in 1..Len(quantities) |->
                    Clamp(quantities[p], NODE_Q_MIN, NODE_Q_MAX)]
          /\ links_flat' =
                [p \in 1..Len(links_flat) |->
                    Clamp(links_flat[p], LINK_W_MIN, LINK_W_MAX)]
          /\ \A p \in 1..Len(quantities) :
                Within(quantities[p], NODE_Q_MIN, NODE_Q_MAX)
                   => quantities'[p] = quantities[p]
          /\ \A p \in 1..Len(links_flat) :
                Within(links_flat[p], LINK_W_MIN, LINK_W_MAX)
                   => links_flat'[p] = links_flat[p]]_vars

\* limit_params has returned on a weight exactly LINK_W_MAX, kept, on a quantity
\* below NODE_Q_MIN, raised to it, and on a quantity above NODE_Q_MAX, lowered to it
C5_Witness ==
    LET before == network_dynamics(StoredQuantities, StoredLinks, rand)[1]
    IN  /\ pc = "set_node_attributes"
        /\ \E k \in 1..Len(links_flat) :
              flatten(links)[k] = LINK_W_MAX /\ links_flat[k] = LINK_W_MAX
        /\ \E p \in 1..Len(quantities) :
              Lt(before[p], NODE_Q_MIN) /\ quantities[p] = NODE_Q_MIN
        /\ \E p \in 1..Len(quantities) :
              Gt(before[p], NODE_Q_MAX) /\ quantities[p] = NODE_Q_MAX

\* C6: limit_params is idempotent: applied to the lists it returned, it returns them
\* unchanged.
C6_LimitIdempotent ==
    pc = "set_node_attributes" =>
        limit_params(quantities, links_flat) = <<quantities, links_flat>>

\* limit_params has returned lists in which it changed a weight and a quantity
C6_Witness ==
    /\ pc = "set_node_attributes"
    /\ \E k \in 1..Len(links_flat) : flatten(links)[k] # links_flat[k]
    /\ \E p \in 1..Len(quantities) : quantities[p] = NODE_Q_MAX
    /\ \E p \in 1..Len(quantities) : quantities[p] = NODE_Q_MIN

\* C7: the run loop terminates; at most ITERATIONS iterations run; the figure is
\* looked at only after the write-back of an iteration: closing it in the middle of
\* an iteration does not cancel the iteration, and once it is found closed no further
\* iteration starts and the run ends.
C7_RunLoopTerminates ==
    /\ <>(pc = "done")
    /\ [](pc \in InIteration => (i >= 0 /\ i < ITERATIONS))
    /\ [][/\ (pc \in InIteration /\ pc # "fignum_exists") => pc' # "done"
          /\ (pc = "fignum_exists" /\ ~fig_open) => (pc' = "done" /\ i' = i)
          /\ (pc = "fignum_exists" /\ fig_open /\ fig_open') =>
                (pc' = "for" /\ i' = i + 1)
          /\ (pc' = "done" /\ pc # "done") =>
                \/ pc = "fignum_exists" /\ ~fig_open
                \/ pc = "for" /\ i = ITERATIONS
          /\ pc = "done" => pc' = "done"]_vars

\* the run has ended on a closed figure before the budget was exhausted, with the
\* iteration's write-back done
C7_Witness ==
    /\ pc = "done"
    /\ ~fig_open
    /\ i < ITERATIONS - 1
    /\ StoredQuantities = quantities
    /\ [k \in 1..Len(net_edges) |-> net_edges[k].weight] = links_flat

\* C8: a configuration with min > max (NODE_Q_MIN > NODE_Q_MAX or LINK_W_MIN >
\* LINK_W_MAX) makes the script fail at startup: no network is built and no iteration
\* runs.
C8_MalformedFailsFast ==
    (Gt(boundaries.node_q[1], boundaries.node_q[2])
        \/ Gt(boundaries.link_w[1], boundaries.link_w[2]))
      => (pc = "initialize_network" /\ name_list = <<>> /\ net_edges = <<>>)

C10_EdgeIdentity ==
    [][(pc = "reassign_weights" /\ pc' = "fignum_exists") =>
          /\ Len(links_flat) = Len(net_edges)
          /\ Len(net_edges') = Len(net_edges)
          /\ \A k \in 1..Len(net_edges) :
                LET a == IndexOf(net_edges[k].u)
                    b == IndexOf(net_edges[k].v)
                IN  /\ net_edges'[k].u = net_edges[k].u
                    /\ net_edges'[k].v = net_edges[k].v
                    /\ net_edges'[k].weight =
                          Clamp(Mul(net_edges[k].weight, rand[a][b]),
                                LINK_W_MIN, LINK_W_MAX)]_vars

\* the write-back has given two edges different weights from different drift factors
C10_Witness ==
    /\ pc = "fignum_exists"
    /\ Len(net_edges) >= 2
    /\ net_edges[1].weight # net_edges[2].weight
    /\ rand[IndexOf(net_edges[1].u)][IndexOf(net_edges[1].v)]
          # rand[IndexOf(net_edges[2].u)][IndexOf(net_edges[2].v)]

====
